---------------------------- MODULE Spec2Model ----------------------------
(***************************************************************************)
(* Model of the assistant bot: the address book (book_tools.py), the       *)
(* command handlers (handler_functions.py), the error decorator (utils.py),*)
(* the tokenizer (command_parser.py) and the session loop (main.py).       *)
(*                                                                         *)
(* A Python str is a sequence of characters; a character is a one-element  *)
(* TLA+ string.  Two characters outside ASCII are written as tokens:       *)
(* "sup2" is U+00B2 SUPERSCRIPT TWO and "emdash" is U+2014 EM DASH.        *)
(* None is the empty sequence where the value is otherwise a str.          *)
(***************************************************************************)
EXTENDS Integers, Sequences, FiniteSets, TLC

VARIABLES
    pc,            \* position of main(): "start", "loop", "done", "crashed"
    disk,          \* content of addressbook.pkl: [exists, data]
    book,          \* main.py:23, the AddressBook returned by load_data
    address_book,  \* main.py:24, the AddressBook the handlers are given
    user_input,    \* main.py:28, the line read, as its whitespace-separated tokens
    printed,       \* the lines printed by the last iteration of the loop
    today,         \* book_tools.py:225, the date read by get_upcoming_birthdays
    upcoming       \* book_tools.py:226, the list get_upcoming_birthdays returned

vars ==
    <<pc, disk, book, address_book, user_input, printed, today, upcoming>>

(***************************************************************************)
(* Bounds.                                                                 *)
(***************************************************************************)
MaxPhones ==
    2

(***************************************************************************)
(* String literals of the program and the input tokens of the model.       *)
(***************************************************************************)
MsgHello ==
    <<"H", "o", "w", " ", "c", "a", "n", " ", "I", " ", "h", "e", "l", "p", " ", "y", "o", "u", "?">>
MsgAdded ==
    <<"C", "o", "n", "t", "a", "c", "t", " ", "a", "d", "d", "e", "d", ".">>
MsgUpdate ==
    <<"C", "o", "n", "t", "a", "c", "t", " ", "u", "p", "d", "a", "t", "e", ".">>
MsgChangeUsage ==
    <<"E", "n", "t", "e", "r", " ", "n", "a", "m", "e", ",", " ", "o", "l", "d", " ", "p", "h", "o", "n", "e", " ", "a", "n", "d", " ", "n", "e", "w", " ", "p", "h", "o", "n", "e", ".">>
MsgUpdated ==
    <<"C", "o", "n", "t", "a", "c", "t", " ", "u", "p", "d", "a", "t", "e", "d", ".">>
MsgBirthdayAdded ==
    <<"B", "i", "r", "t", "h", "d", "a", "y", " ", "a", "d", "d", "e", "d", ".">>
MsgNoBirthdaySuffix ==
    <<" ", "h", "a", "s", " ", "n", "o", " ", "b", "i", "r", "t", "h", "d", "a", "y", " ", "s", "a", "v", "e", "d", ".">>
MsgBirthdayInfix ==
    <<"'", "s", " ", "b", "i", "r", "t", "h", "d", "a", "y", ":", " ">>
MsgNoBirthdays ==
    <<"T", "h", "e", "r", "e", " ", "a", "r", "e", " ", "n", "o", " ", "b", "i", "r", "t", "h", "d", "a", "y", "s", " ", "i", "n", " ", "t", "h", "e", " ", "n", "e", "x", "t", " ", "7", " ", "d", "a", "y", "s", ".">>
MsgCongratulate ==
    <<"C", "o", "n", "g", "r", "a", "t", "u", "l", "a", "t", "e", " ">>
MsgDash ==
    <<" ", "emdash", " ">>
MsgNoContacts ==
    <<"N", "o", " ", "c", "o", "n", "t", "a", "c", "t", "s", " ", "s", "a", "v", "e", "d", ".">>
MsgGoodbye ==
    <<"G", "o", "o", "d", " ", "b", "y", "e", "!">>
MsgNotEnough ==
    <<"N", "o", "t", " ", "e", "n", "o", "u", "g", "h", " ", "a", "r", "g", "u", "m", "e", "n", "t", "s", ".">>
MsgNotFound ==
    <<"C", "o", "n", "t", "a", "c", "t", " ", "n", "o", "t", " ", "f", "o", "u", "n", "d", ".">>
MsgOpFailed ==
    <<"O", "p", "e", "r", "a", "t", "i", "o", "n", " ", "f", "a", "i", "l", "e", "d", ".", " ", "C", "o", "n", "t", "a", "c", "t", " ", "m", "a", "y", " ", "n", "o", "t", " ", "e", "x", "i", "s", "t", ".">>
MsgErrorPrefix ==
    <<"E", "r", "r", "o", "r", ":", " ">>
MsgEnterCommand ==
    <<"E", "n", "t", "e", "r", " ", "a", " ", "c", "o", "m", "m", "a", "n", "d", " ", "p", "l", "e", "a", "s", "e", ".">>
MsgInvalidCommand ==
    <<"I", "n", "v", "a", "l", "i", "d", " ", "c", "o", "m", "m", "a", "n", "d", ".">>
MsgSaved ==
    <<"A", "d", "r", "e", "s", "s", "B", "o", "o", "k", " ", "s", "a", "v", "e", "d", ".">>
ErrPhoneLength ==
    <<"T", "h", "e", " ", "l", "e", "n", "g", "t", "h", " ", "o", "f", " ", "t", "h", "e", " ", "t", "e", "l", "e", "p", "h", "o", "n", "e", " ", "n", "u", "m", "b", "e", "r", " ", "m", "u", "s", "t", " ", "b", "e", " ", "1", "0", " ", "n", "u", "m", "b", "e", "r", "s", ".">>
ErrPhoneDigits ==
    <<"V", "a", "l", "u", "e", " ", "m", "u", "s", "t", " ", "c", "o", "n", "s", "i", "s", "t", " ", "o", "f", " ", "n", "u", "m", "b", "e", "r", "s", ".">>
ErrOldNotFound ==
    <<"O", "l", "d", " ", "n", "u", "m", "b", "e", "r", " ", "n", "o", "t", " ", "f", "o", "u", "n", "d", ".">>
ErrDateFormat ==
    <<"I", "n", "v", "a", "l", "i", "d", " ", "d", "a", "t", "e", " ", "f", "o", "r", "m", "a", "t", ".", " ", "U", "s", "e", " ", "D", "D", ".", "M", "M", ".", "Y", "Y", "Y", "Y">>
ErrUnpack ==
    <<"n", "o", "t", " ", "e", "n", "o", "u", "g", "h", " ", "v", "a", "l", "u", "e", "s", " ", "t", "o", " ", "u", "n", "p", "a", "c", "k">>
ErrDayRange ==
    <<"d", "a", "y", " ", "i", "s", " ", "o", "u", "t", " ", "o", "f", " ", "r", "a", "n", "g", "e", " ", "f", "o", "r", " ", "m", "o", "n", "t", "h">>
StrContactName ==
    <<"C", "o", "n", "t", "a", "c", "t", " ", "n", "a", "m", "e", ":", " ">>
StrPhones ==
    <<",", " ", "p", "h", "o", "n", "e", "s", ":", " ">>
StrBirthday ==
    <<",", " ", "b", "i", "r", "t", "h", "d", "a", "y", ":", " ">>
John ==
    <<"J", "o", "h", "n">>
Bob ==
    <<"B", "o", "b">>
Ann ==
    <<"A", "n", "n">>
P1 ==
    <<"1", "2", "3", "4", "5", "6", "7", "8", "9", "0">>
P2 ==
    <<"0", "9", "8", "7", "6", "5", "4", "3", "2", "1">>
P3 ==
    <<"1", "1", "1", "1", "1", "1", "1", "1", "1", "1">>
PShort ==
    <<"1", "2", "3">>
PAlpha ==
    <<"1", "2", "3", "4", "5", "a", "b", "c", "d", "e">>
B0601 ==
    <<"0", "6", ".", "0", "1", ".", "1", "9", "9", "0">>
B2902 ==
    <<"2", "9", ".", "0", "2", ".", "2", "0", "0", "0">>
B3102 ==
    <<"3", "1", ".", "0", "2", ".", "2", "0", "2", "3">>
B0801 ==
    <<"0", "8", ".", "0", "1", ".", "1", "9", "8", "5">>
B0901 ==
    <<"0", "9", ".", "0", "1", ".", "2", "0", "0", "1">>
B0501 ==
    <<"0", "5", ".", "0", "1", ".", "1", "9", "7", "0">>
B0701 ==
    <<"0", "7", ".", "0", "1", ".", "1", "9", "9", "9">>
B2602 ==
    <<"2", "6", ".", "0", "2", ".", "1", "9", "9", "0">>
CmdHello ==
    <<"h", "e", "l", "l", "o">>
CmdAdd ==
    <<"a", "d", "d">>
CmdAddUpper ==
    <<"A", "D", "D">>
CmdChange ==
    <<"c", "h", "a", "n", "g", "e">>
CmdPhone ==
    <<"p", "h", "o", "n", "e">>
CmdAddBirthday ==
    <<"a", "d", "d", "-", "b", "i", "r", "t", "h", "d", "a", "y">>
CmdShowBirthday ==
    <<"s", "h", "o", "w", "-", "b", "i", "r", "t", "h", "d", "a", "y">>
CmdBirthdays ==
    <<"b", "i", "r", "t", "h", "d", "a", "y", "s">>
CmdAll ==
    <<"a", "l", "l">>
CmdClose ==
    <<"c", "l", "o", "s", "e">>
CmdExit ==
    <<"e", "x", "i", "t">>
CmdUnknown ==
    <<"d", "e", "l", "e", "t", "e">>
OutJohnP1P2 ==
    <<"J", "o", "h", "n", ":", " ", "1", "2", "3", "4", "5", "6", "7", "8", "9", "0", ";", " ", "0", "9", "8", "7", "6", "5", "4", "3", "2", "1">>
OutJohnP3P2 ==
    <<"J", "o", "h", "n", ":", " ", "1", "1", "1", "1", "1", "1", "1", "1", "1", "1", ";", " ", "0", "9", "8", "7", "6", "5", "4", "3", "2", "1">>
OutJohnP2P3 ==
    <<"J", "o", "h", "n", ":", " ", "0", "9", "8", "7", "6", "5", "4", "3", "2", "1", ";", " ", "1", "1", "1", "1", "1", "1", "1", "1", "1", "1">>
D08012024 ==
    <<"0", "8", ".", "0", "1", ".", "2", "0", "2", "4">>

Sup2 ==
    "sup2"

PSup ==
    <<Sup2, Sup2, Sup2, Sup2, Sup2, Sup2, Sup2, Sup2, Sup2, Sup2>>

None ==
    <<>>

NoDate ==
    <<0, 0, 0>>

(***************************************************************************)
(* str helpers.                                                            *)
(***************************************************************************)
AsciiDigits ==
    {"0", "1", "2", "3", "4", "5", "6", "7", "8", "9"}

\* Characters c outside 0-9 for which Python's c.isdigit() is True
\* (Numeric_Type=Digit), within the alphabet of the model.
OtherDigits ==
    {Sup2}

DigitVal(c) ==
    CASE c = "0" -> 0 [] c = "1" -> 1 [] c = "2" -> 2 [] c = "3" -> 3
      [] c = "4" -> 4 [] c = "5" -> 5 [] c = "6" -> 6 [] c = "7" -> 7
      [] c = "8" -> 8 [] c = "9" -> 9

DigitChar(n) ==
    CASE n = 0 -> "0" [] n = 1 -> "1" [] n = 2 -> "2" [] n = 3 -> "3"
      [] n = 4 -> "4" [] n = 5 -> "5" [] n = 6 -> "6" [] n = 7 -> "7"
      [] n = 8 -> "8" [] n = 9 -> "9"

\* str.isdigit(): non-empty and every character is a digit character.
isdigit(s) ==
    /\ Len(s) > 0
    /\ \A i \in 1..Len(s) : s[i] \in AsciiDigits \cup OtherDigits

LowerChar(c) ==
    CASE c = "A" -> "a" [] c = "D" -> "d" [] c = "J" -> "j"
      [] OTHER -> c

\* str.lower()
lower(s) ==
    [i \in 1..Len(s) |-> LowerChar(s[i])]

RECURSIVE join(_, _)
\* sep.join(parts)
join(sep, parts) ==
    IF Len(parts) = 0 THEN <<>>
    ELSE IF Len(parts) = 1 THEN parts[1]
    ELSE parts[1] \o sep \o join(sep, Tail(parts))

RECURSIVE SplitAt(_, _)
\* s.split(ch) for a single separator character
SplitAt(s, ch) ==
    IF \A i \in 1..Len(s) : s[i] # ch THEN <<s>>
    ELSE LET i == CHOOSE k \in 1..Len(s) :
                    s[k] = ch /\ \A j \in 1..(k - 1) : s[j] # ch
         IN  <<SubSeq(s, 1, i - 1)>> \o SplitAt(SubSeq(s, i + 1, Len(s)), ch)

RECURSIVE IntOf(_)
IntOf(s) ==
    IF Len(s) = 0 THEN 0
    ELSE 10 * IntOf(SubSeq(s, 1, Len(s) - 1)) + DigitVal(s[Len(s)])

Pad(n, w) ==
    [i \in 1..w |-> DigitChar((n \div (10 ^ (w - i))) % 10)]

Ok(v) ==
    [exc |-> "None", val |-> v]

Raise(kind, msg) ==
    [exc |-> kind, val |-> msg]

(***************************************************************************)
(* datetime.date: a date is <<year, month, day>>.                          *)
(***************************************************************************)
IsLeap(y) ==
    y % 4 = 0 /\ (y % 100 # 0 \/ y % 400 = 0)

DaysInMonth(y, m) ==
    IF m = 2 THEN (IF IsLeap(y) THEN 29 ELSE 28)
    ELSE IF m \in {4, 6, 9, 11} THEN 30 ELSE 31

RECURSIVE DaysBeforeMonth(_, _)
DaysBeforeMonth(y, m) ==
    IF m = 1 THEN 0 ELSE DaysBeforeMonth(y, m - 1) + DaysInMonth(y, m - 1)

DaysBeforeYear(y) ==
    (y - 1) * 365 + ((y - 1) \div 4) - ((y - 1) \div 100) + ((y - 1) \div 400)

\* date.toordinal()
ToOrdinal(d) ==
    DaysBeforeYear(d[1]) + DaysBeforeMonth(d[1], d[2]) + d[3]

\* date.weekday(): Monday is 0, Sunday is 6
weekday(d) ==
    (ToOrdinal(d) + 6) % 7

\* date + timedelta(days=1)
NextDay(d) ==
    IF d[3] < DaysInMonth(d[1], d[2]) THEN <<d[1], d[2], d[3] + 1>>
    ELSE IF d[2] < 12 THEN <<d[1], d[2] + 1, 1>>
    ELSE <<d[1] + 1, 1, 1>>

RECURSIVE PlusDays(_, _)
\* date + timedelta(days=n), n >= 0
PlusDays(d, n) ==
    IF n = 0 THEN d ELSE PlusDays(NextDay(d), n - 1)

\* d1 < d2 on dates
DateLt(d1, d2) ==
    \/ d1[1] < d2[1]
    \/ d1[1] = d2[1] /\ d1[2] < d2[2]
    \/ d1[1] = d2[1] /\ d1[2] = d2[2] /\ d1[3] < d2[3]

DateLe(d1, d2) ==
    d1 = d2 \/ DateLt(d1, d2)

\* date.replace(year=y): ValueError when the day does not exist in year y
replace_year(d, y) ==
    IF d[3] <= DaysInMonth(y, d[2]) THEN Ok(<<y, d[2], d[3]>>)
    ELSE Raise("ValueError", ErrDayRange)

\* The date of year y, month m, day d, ValueError when there is none
MakeDate(y, m, d) ==
    IF m \in 1..12 /\ y >= 1 /\ d >= 1 /\ d <= DaysInMonth(y, m)
    THEN Ok(<<y, m, d>>)
    ELSE Raise("ValueError", <<>>)

AllAsciiDigits(s) ==
    \A i \in 1..Len(s) : s[i] \in AsciiDigits

\* The fields %d, %m and %Y of strptime: one or two digits, one or two
\* digits, four digits
ParseFields(parts) ==
    IF /\ Len(parts) = 3
       /\ Len(parts[1]) \in 1..2 /\ AllAsciiDigits(parts[1])
       /\ Len(parts[2]) \in 1..2 /\ AllAsciiDigits(parts[2])
       /\ Len(parts[3]) = 4 /\ AllAsciiDigits(parts[3])
    THEN MakeDate(IntOf(parts[3]), IntOf(parts[2]), IntOf(parts[1]))
    ELSE Raise("ValueError", <<>>)

\* datetime.strptime(value, "%d.%m.%Y")
strptime(value) ==
    ParseFields(SplitAt(value, "."))

\* date.strftime("%d.%m.%Y")
strftime(d) ==
    Pad(d[3], 2) \o <<".">> \o Pad(d[2], 2) \o <<".">> \o Pad(d[1], 4)

(***************************************************************************)
(* book_tools.py: fields, Record, AddressBook.                             *)
(* A Record is [name, phones, birthday]; an AddressBook is the sequence of *)
(* its records in the insertion order of the underlying dict.  A method    *)
(* that changes a record returns [exc, val, rec]: the exception it raised  *)
(* ("None" when it returned), the exception's message and the record after *)
(* the call.                                                               *)
(***************************************************************************)
\* Phone.__init__
Phone(value) ==
    IF Len(value) # 10 THEN Raise("ValueError", ErrPhoneLength)
    ELSE IF ~isdigit(value) THEN Raise("ValueError", ErrPhoneDigits)
    ELSE Ok(value)

\* Birthday.__init__
Birthday(value) ==
    IF strptime(value).exc # "None" THEN Raise("ValueError", ErrDateFormat)
    ELSE Ok(value)

\* Birthday.date
BirthdayDate(value) ==
    strptime(value).val

\* Record.__init__
Record(name) ==
    [name |-> name, phones |-> <<>>, birthday |-> None]

\* A method of Record that raised the exception `e` carries
RecRaise(e, rec) ==
    [exc |-> e.exc, val |-> e.val, rec |-> rec]

\* A method of Record that returned, leaving the record as rec
RecOk(rec) ==
    [exc |-> "None", val |-> None, rec |-> rec]

\* self.phones.append(p) of Record.add_phone, p being the outcome of Phone(..)
AppendPhone(rec, p) ==
    IF p.exc # "None" THEN RecRaise(p, rec)
    ELSE RecOk([rec EXCEPT !.phones = Append(@, p.val)])

\* Record.add_phone putting the new phone first
add_phone_front(rec, phone) ==
    IF Phone(phone).exc # "None" THEN RecRaise(Phone(phone), rec)
    ELSE RecOk([rec EXCEPT !.phones = <<phone>> \o @])

\* Record.add_phone
add_phone(rec, phone) ==
    AppendPhone(rec, Phone(phone))

\* self.birthday = b of Record.add_birthday, b being the outcome of Birthday(..)
SetBirthday(rec, b) ==
    IF b.exc # "None" THEN RecRaise(b, rec)
    ELSE RecOk([rec EXCEPT !.birthday = b.val])

\* Record.add_birthday
add_birthday(rec, value) ==
    SetBirthday(rec, Birthday(value))

\* Record.find_phone: the index of the first phone equal to phone, 0 for None
find_phone(rec, phone) ==
    IF \E i \in 1..Len(rec.phones) : rec.phones[i] = phone
    THEN CHOOSE i \in 1..Len(rec.phones) :
            /\ rec.phones[i] = phone
            /\ \A j \in 1..(i - 1) : rec.phones[j] # phone
    ELSE 0

\* self.phones.remove(find) of Record.remove_phone, find being an index or 0
RemoveFound(rec, find) ==
    IF find = 0 THEN [exc |-> "ValueError", val |-> None, rec |-> rec]
    ELSE RecOk([rec EXCEPT !.phones =
                    SubSeq(@, 1, find - 1) \o SubSeq(@, find + 1, Len(@))])

\* Record.remove_phone removing every occurrence, as its docstring says
remove_phone_all(rec, phone) ==
    IF find_phone(rec, phone) = 0
    THEN [exc |-> "ValueError", val |-> None, rec |-> rec]
    ELSE RecOk([rec EXCEPT !.phones = SelectSeq(@, LAMBDA x : x # phone)])

\* Record.remove_phone
remove_phone(rec, phone) ==
    RemoveFound(rec, find_phone(rec, phone))

\* Lines 151-152 of Record.edit_phone, removed being the outcome of remove_phone
AppendAfterRemove(removed, new_phone) ==
    IF removed.exc # "None" THEN removed
    ELSE add_phone(removed.rec, new_phone)

\* Record.edit_phone replacing the old phone where it stands
edit_phone_in_place(rec, old_phone, new_phone) ==
    IF find_phone(rec, old_phone) = 0
    THEN [exc |-> "ValueError", val |-> ErrOldNotFound, rec |-> rec]
    ELSE IF Phone(new_phone).exc # "None"
    THEN RecRaise(Phone(new_phone), rec)
    ELSE RecOk([rec EXCEPT !.phones[find_phone(rec, old_phone)] = new_phone])

\* Record.edit_phone
edit_phone(rec, old_phone, new_phone) ==
    IF find_phone(rec, old_phone) = 0
    THEN [exc |-> "ValueError", val |-> ErrOldNotFound, rec |-> rec]
    ELSE IF Phone(new_phone).exc # "None"
    THEN RecRaise(Phone(new_phone), rec)
    ELSE AppendAfterRemove(remove_phone(rec, old_phone), new_phone)

\* Record.__str__
RecordStr(rec) ==
    StrContactName \o rec.name \o StrPhones \o join(<<";", " ">>, rec.phones)
        \o (IF rec.birthday # None THEN StrBirthday \o rec.birthday ELSE <<>>)

\* AddressBook.find: the index of the record stored under name, 0 for None
find(ab, name) ==
    IF \E i \in 1..Len(ab) : ab[i].name = name
    THEN CHOOSE i \in 1..Len(ab) : ab[i].name = name
    ELSE 0

\* self.data[key] = rec of AddressBook.add_record, i being the key's index or 0
StoreAt(ab, i, rec) ==
    IF i # 0 THEN [ab EXCEPT ![i] = rec] ELSE Append(ab, rec)

\* AddressBook.add_record
add_record(ab, rec) ==
    StoreAt(ab, find(ab, rec.name), rec)

\* days_to_monday counted from a six-day week
days_to_monday_short(wd) ==
    6 - wd

\* days_to_monday of get_upcoming_birthdays
days_to_monday(wd) ==
    7 - wd

\* cong_day of get_upcoming_birthdays, wd being birthday.weekday()
ShiftFrom(birthday, wd) ==
    IF wd >= 5 THEN PlusDays(birthday, days_to_monday(wd)) ELSE birthday

\* The congratulation day of get_upcoming_birthdays
cong_day(birthday) ==
    ShiftFrom(birthday, weekday(birthday))

\* The entry get_upcoming_birthdays appends for a record
Entry(rec, day) ==
    [name |-> rec.name, birthday |-> strftime(day)]

RECURSIVE UpcomingFrom(_, _, _, _)
RECURSIVE Projected(_, _, _, _, _)
RECURSIVE Candidate(_, _, _, _, _)
\* Lines 234-243: the window test on the candidate date b, an outcome of replace
Candidate(ab, td, i, acc, b) ==
    IF b.exc # "None" THEN b
    ELSE IF DateLe(td, b.val) /\ DateLe(b.val, PlusDays(td, 7))
    THEN UpcomingFrom(ab, td, i + 1, Append(acc, Entry(ab[i], cong_day(b.val))))
    ELSE UpcomingFrom(ab, td, i + 1, acc)

\* Lines 232-233: b is the outcome of replace(year=today.year)
Projected(ab, td, i, acc, b) ==
    IF b.exc # "None" THEN b
    ELSE IF DateLt(b.val, td)
    THEN Candidate(ab, td, i, acc, replace_year(b.val, td[1] + 1))
    ELSE Candidate(ab, td, i, acc, b)

\* The loop of get_upcoming_birthdays from record i on, acc being `upcoming`
UpcomingFrom(ab, td, i, acc) ==
    IF i > Len(ab) THEN Ok(acc)
    ELSE IF ab[i].birthday = None THEN UpcomingFrom(ab, td, i + 1, acc)
    ELSE Projected(ab, td, i, acc,
                   replace_year(BirthdayDate(ab[i].birthday), td[1]))

\* AddressBook.get_upcoming_birthdays, td being datetime.today().date()
get_upcoming_birthdays(ab, td) ==
    UpcomingFrom(ab, td, 1, <<>>)

\* pickle.dump of an AddressBook: the records flattened to tuples
pickle_dump(ab) ==
    [i \in 1..Len(ab) |-> <<ab[i].name, ab[i].phones, ab[i].birthday>>]

\* pickle.load
pickle_load(blob) ==
    [i \in 1..Len(blob) |->
        [name |-> blob[i][1], phones |-> blob[i][2], birthday |-> blob[i][3]]]

\* AddressBook.save_data: the file after the call
save_data(ab) ==
    [exists |-> TRUE, data |-> pickle_dump(ab)]

\* AddressBook.load_data
load_data(file) ==
    IF file.exists THEN pickle_load(file.data) ELSE <<>>

(***************************************************************************)
(* handler_functions.py.  A handler returns [exc, val, ab, up]: the        *)
(* exception it raised ("None" when it returned), its return value or the  *)
(* exception's message, the address book after it ran and the list that    *)
(* get_upcoming_birthdays returned to it.                                  *)
(***************************************************************************)
Ret(v, ab) ==
    [exc |-> "None", val |-> v, ab |-> ab, up |-> <<>>]

Exc(kind, msg, ab) ==
    [exc |-> kind, val |-> msg, ab |-> ab, up |-> <<>>]

\* The end of a handler that called the method of record i whose outcome is r
AfterMethod(ab, i, r, message) ==
    IF r.exc # "None" THEN Exc(r.exc, r.val, ab)
    ELSE Ret(message, [ab EXCEPT ![i] = r.rec])

hello(args, ab) ==
    Ret(MsgHello, ab)

\* Lines 16-23 of add_contact when find returned None
add_contact_new(name, number, ab1) ==
    AfterMethod(ab1, find(ab1, name), add_phone(ab1[find(ab1, name)], number),
                MsgAdded)

\* Lines 20-23 of add_contact when find returned the record at index i
add_contact_old(i, number, ab) ==
    AfterMethod(ab, i, add_phone(ab[i], number), MsgUpdate)

add_contact(args, ab) ==
    IF Len(args) < 2 THEN Exc("IndexError", None, ab)
    ELSE IF find(ab, args[1]) = 0
    THEN add_contact_new(args[1], args[2], add_record(ab, Record(args[1])))
    ELSE add_contact_old(find(ab, args[1]), args[2], ab)

\* Lines 31-33 of change, i being the index of the record find returned, or 0
change_found(i, args, ab) ==
    IF i = 0 THEN Exc("AttributeError", None, ab)
    ELSE AfterMethod(ab, i, edit_phone(ab[i], args[2], args[3]), MsgUpdated)

change(args, ab) ==
    IF Len(args) # 3 THEN Ret(MsgChangeUsage, ab)
    ELSE change_found(find(ab, args[1]), args, ab)

\* Lines 39-41 of phone
phone_found(i, args, ab) ==
    IF i = 0 THEN Exc("AttributeError", None, ab)
    ELSE Ret(args[1] \o <<":", " ">> \o join(<<";", " ">>, ab[i].phones), ab)

phone(args, ab) ==
    IF Len(args) < 1 THEN Exc("IndexError", None, ab)
    ELSE phone_found(find(ab, args[1]), args, ab)

\* Lines 47-49 of add_bday
add_bday_found(i, args, ab) ==
    IF i = 0 THEN Exc("AttributeError", None, ab)
    ELSE AfterMethod(ab, i, add_birthday(ab[i], args[2]), MsgBirthdayAdded)

add_bday(args, ab) ==
    IF Len(args) < 2 THEN Exc("ValueError", ErrUnpack, ab)
    ELSE add_bday_found(find(ab, args[1]), args, ab)

\* Lines 55-58 of show_bday
show_bday_found(i, args, ab) ==
    IF i = 0 THEN Exc("AttributeError", None, ab)
    ELSE IF ab[i].birthday = None THEN Ret(args[1] \o MsgNoBirthdaySuffix, ab)
    ELSE Ret(args[1] \o MsgBirthdayInfix \o ab[i].birthday, ab)

show_bday(args, ab) ==
    IF Len(args) < 1 THEN Exc("IndexError", None, ab)
    ELSE show_bday_found(find(ab, args[1]), args, ab)

\* Lines 64-69 of bdays, birthdays being the outcome of get_upcoming_birthdays
bdays_listed(birthdays, ab) ==
    IF birthdays.exc # "None" THEN Exc(birthdays.exc, birthdays.val, ab)
    ELSE IF birthdays.val = <<>> THEN Ret(MsgNoBirthdays, ab)
    ELSE [exc |-> "None",
          val |-> join(<<"\n">>,
                    [i \in 1..Len(birthdays.val) |->
                        MsgCongratulate \o birthdays.val[i].name
                            \o MsgDash \o birthdays.val[i].birthday]),
          ab |-> ab, up |-> birthdays.val]

bdays(args, ab, td) ==
    bdays_listed(get_upcoming_birthdays(ab, td), ab)

all(args, ab) ==
    IF ab = <<>> THEN Ret(MsgNoContacts, ab)
    ELSE Ret(join(<<"\n">>, [i \in 1..Len(ab) |-> RecordStr(ab[i])]), ab)

goodbye(args, ab) ==
    Ret(MsgGoodbye, ab)

\* The keys of the COMMANDS dictionary
COMMANDS ==
    {CmdHello, CmdAdd, CmdChange, CmdPhone, CmdAddBirthday, CmdShowBirthday,
     CmdBirthdays, CmdAll, CmdClose, CmdExit}

(***************************************************************************)
(* utils.py                                                                *)
(***************************************************************************)
\* The exception classes that derive from Exception
ExceptionClasses ==
    {"IndexError", "KeyError", "AttributeError", "ValueError", "TypeError"}

\* input_error without its last clause, `except Exception`
input_error_no_catch_all(r) ==
    IF r.exc = "None" THEN r
    ELSE IF r.exc = "IndexError" THEN [r EXCEPT !.exc = "None", !.val = MsgNotEnough]
    ELSE IF r.exc = "KeyError" THEN [r EXCEPT !.exc = "None", !.val = MsgNotFound]
    ELSE IF r.exc = "AttributeError" THEN [r EXCEPT !.exc = "None", !.val = MsgOpFailed]
    ELSE r

\* input_error: what inner makes of the outcome r of the handler it wraps
input_error(r) ==
    IF r.exc = "None" THEN r
    ELSE IF r.exc = "IndexError" THEN [r EXCEPT !.exc = "None", !.val = MsgNotEnough]
    ELSE IF r.exc = "KeyError" THEN [r EXCEPT !.exc = "None", !.val = MsgNotFound]
    ELSE IF r.exc = "AttributeError" THEN [r EXCEPT !.exc = "None", !.val = MsgOpFailed]
    ELSE IF r.exc \in ExceptionClasses
    THEN [r EXCEPT !.exc = "None", !.val = MsgErrorPrefix \o r.val]
    ELSE r

(***************************************************************************)
(* command_parser.py                                                       *)
(***************************************************************************)
\* parse_input, on the tokens of a non-empty line
parse_input(parts) ==
    [cmd |-> lower(parts[1]), args |-> Tail(parts)]

(***************************************************************************)
(* main.py                                                                 *)
(***************************************************************************)
EmptyFile ==
    [exists |-> FALSE, data |-> <<>>]

\* The address book an earlier session may have left in addressbook.pkl
StoredBook ==
    <<[name |-> Ann, phones |-> <<P1>>, birthday |-> B0601]>>

\* The lines typed, by command
AddLines ==
    {<<CmdAdd, John, p>> : p \in {P1, P2, PSup, PShort, PAlpha}}
        \cup {<<CmdAdd, Ann, P1>>, <<CmdAdd, John>>, <<CmdAddUpper, John, P1>>}

ChangeLines ==
    {<<CmdChange, John, P1, n>> : n \in {P3, PSup, PShort}}
        \cup {<<CmdChange, John, P2, P3>>, <<CmdChange, John, P1>>,
              <<CmdChange, Bob, P1, P3>>}

PhoneLines ==
    {<<CmdPhone>>, <<CmdPhone, John>>, <<CmdPhone, Ann>>, <<CmdPhone, Bob>>}

AddBirthdayLines ==
    {<<CmdAddBirthday, John, B2902>>, <<CmdAddBirthday, John, B3102>>,
     <<CmdAddBirthday, John>>, <<CmdAddBirthday, Bob, B2902>>}

ShowBirthdayLines ==
    {<<CmdShowBirthday>>, <<CmdShowBirthday, John>>, <<CmdShowBirthday, Bob>>}

UnknownLines ==
    {<<CmdUnknown, John>>}

\* The dates datetime.today() returns in a session
SessionDays ==
    {<<2024, 2, 25>>, <<2023, 2, 25>>}

RECURSIVE PhoneCount(_)
\* The number of phones an address book holds
PhoneCount(ab) ==
    IF ab = <<>> THEN 0 ELSE Len(Head(ab).phones) + PhoneCount(Tail(ab))

\* main, lines 23-25
Start ==
    /\ pc \in {"start", "done"}
    /\ book' = load_data(disk)
    /\ address_book' = <<>>
    /\ printed' = <<>>
    /\ user_input' = <<>>
    /\ today' = NoDate
    /\ upcoming' = <<>>
    /\ pc' = "loop"
    /\ UNCHANGED disk

\* main, lines 28-31 and 33-37: an iteration that ends at `continue`
Skip(line, message) ==
    /\ user_input' = line
    /\ printed' = <<message>>
    /\ today' = NoDate
    /\ upcoming' = <<>>
    /\ UNCHANGED <<pc, disk, book, address_book>>

\* main, lines 39-45: result is what COMMANDS[command](args, address_book)
\* returned or raised, td the date datetime.today() gave the handler
Dispatch(line, td, result) ==
    /\ user_input' = line
    /\ book' = book
    /\ PhoneCount(result.ab) <= MaxPhones
    /\ address_book' = result.ab
    /\ today' = td
    /\ upcoming' = result.up
    /\ IF result.exc # "None"
       THEN /\ pc' = "crashed"
            /\ printed' = <<>>
            /\ UNCHANGED disk
       ELSE IF parse_input(line).cmd \in {CmdClose, CmdExit}
       THEN /\ printed' = <<result.val, MsgSaved>>
            /\ disk' = save_data(book)
            /\ pc' = "done"
       ELSE /\ printed' = <<result.val>>
            /\ UNCHANGED <<pc, disk>>

EmptyInput ==
    /\ pc = "loop"
    /\ Skip(<<>>, MsgEnterCommand)

UnknownCommand ==
    /\ pc = "loop"
    /\ \E line \in UnknownLines :
          /\ parse_input(line).cmd \notin COMMANDS
          /\ Skip(line, MsgInvalidCommand)

Hello ==
    /\ pc = "loop"
    /\ \E line \in {<<CmdHello>>} :
          /\ parse_input(line).cmd = CmdHello
          /\ Dispatch(line, NoDate,
                 input_error(hello(parse_input(line).args, address_book)))

Add ==
    /\ pc = "loop"
    /\ \E line \in AddLines :
          /\ parse_input(line).cmd = CmdAdd
          /\ Dispatch(line, NoDate,
                 input_error(add_contact(parse_input(line).args, address_book)))

Change ==
    /\ pc = "loop"
    /\ \E line \in ChangeLines :
          /\ parse_input(line).cmd = CmdChange
          /\ Dispatch(line, NoDate,
                 input_error(change(parse_input(line).args, address_book)))

ShowPhone ==
    /\ pc = "loop"
    /\ \E line \in PhoneLines :
          /\ parse_input(line).cmd = CmdPhone
          /\ Dispatch(line, NoDate,
                 input_error(phone(parse_input(line).args, address_book)))

AddBirthday ==
    /\ pc = "loop"
    /\ \E line \in AddBirthdayLines :
          /\ parse_input(line).cmd = CmdAddBirthday
          /\ Dispatch(line, NoDate,
                 input_error(add_bday(parse_input(line).args, address_book)))

ShowBirthday ==
    /\ pc = "loop"
    /\ \E line \in ShowBirthdayLines :
          /\ parse_input(line).cmd = CmdShowBirthday
          /\ Dispatch(line, NoDate,
                 input_error(show_bday(parse_input(line).args, address_book)))

Birthdays ==
    /\ pc = "loop"
    /\ \E line \in {<<CmdBirthdays>>}, td \in SessionDays :
          /\ parse_input(line).cmd = CmdBirthdays
          /\ Dispatch(line, td,
                 input_error(bdays(parse_input(line).args, address_book, td)))

ShowAll ==
    /\ pc = "loop"
    /\ \E line \in {<<CmdAll>>} :
          /\ parse_input(line).cmd = CmdAll
          /\ Dispatch(line, NoDate,
                 input_error(all(parse_input(line).args, address_book)))

Exit ==
    /\ pc = "loop"
    /\ \E line \in {<<CmdClose>>, <<CmdExit>>} :
          /\ parse_input(line).cmd \in {CmdClose, CmdExit}
          /\ Dispatch(line, NoDate,
                 input_error(goodbye(parse_input(line).args, address_book)))

Init ==
    /\ pc = "start"
    /\ disk \in {EmptyFile, save_data(StoredBook)}
    /\ book = <<>>
    /\ address_book = <<>>
    /\ user_input = <<>>
    /\ printed = <<>>
    /\ today = NoDate
    /\ upcoming = <<>>

Next ==
    \/ Start
    \/ EmptyInput
    \/ UnknownCommand
    \/ Hello
    \/ Add
    \/ Change
    \/ ShowPhone
    \/ AddBirthday
    \/ ShowBirthday
    \/ Birthdays
    \/ ShowAll
    \/ Exit

Spec ==
    Init /\ [][Next]_vars

(***************************************************************************)
(* get_upcoming_birthdays as a function of the address book and of today.  *)
(***************************************************************************)
BirthdayValues ==
    {None, B0601, B2902, B0801, B0901, B0501, B0701, B2602}

Todays ==
    {<<2024, 1, 1>>, <<2023, 12, 30>>, <<2023, 12, 31>>, <<2023, 2, 25>>,
     <<2024, 2, 25>>, <<2024, 3, 5>>, <<2024, 1, 6>>, <<2025, 12, 31>>}

InitBirthdays ==
    /\ pc = "loop"
    /\ disk = EmptyFile
    /\ book = <<>>
    /\ \E b1 \in BirthdayValues, b2 \in BirthdayValues :
          address_book \in
             {<<[name |-> John, phones |-> <<P1>>, birthday |-> b1]>>,
              <<[name |-> John, phones |-> <<P1>>, birthday |-> b1],
                [name |-> Ann, phones |-> <<P2>>, birthday |-> b2]>>}
    /\ user_input = <<>>
    /\ printed = <<>>
    /\ today = NoDate
    /\ upcoming = <<>>

BirthdaysOn ==
    /\ pc = "loop"
    /\ \E td \in Todays :
          Dispatch(<<CmdBirthdays>>, td,
              input_error(bdays(<<>>, address_book, td)))

NextBirthdays ==
    BirthdaysOn

SpecBirthdays ==
    InitBirthdays /\ [][NextBirthdays]_vars

(***************************************************************************)
(* Vocabulary of the properties.                                           *)
(***************************************************************************)
\* A phone as the specification defines it: ten characters, each one of 0-9
IsTenDecimalDigits(s) ==
    Len(s) = 10 /\ \A i \in 1..Len(s) : s[i] \in AsciiDigits

\* The command word of a line read by the loop, <<>> for an empty line
CommandOf(line) ==
    IF line = <<>> THEN <<>> ELSE lower(line[1])

Records(ab) ==
    {ab[i] : i \in 1..Len(ab)}

\* The occurrences of the birthday's month and day that lie k days after td:
\* the dates of this year and the next that exist and are k days from td
Occurrences(value, td, k) ==
    {c \in {<<y, BirthdayDate(value)[2], BirthdayDate(value)[3]>> :
                y \in {td[1], td[1] + 1}} :
        /\ c[3] <= DaysInMonth(c[1], c[2])
        /\ ToOrdinal(c) = ToOrdinal(td) + k}

\* The dates s days after c
DatesAfter(c, s) ==
    {g \in {<<y, m, d>> : y \in {c[1], c[1] + 1}, m \in {c[2], (c[2] % 12) + 1},
                          d \in 1..31} :
        /\ g[3] <= DaysInMonth(g[1], g[2])
        /\ ToOrdinal(g) = ToOrdinal(c) + s}

\* The days a greeting moves forward from a date falling on weekday wd
WeekendShift(wd) ==
    IF wd = 5 THEN 2 ELSE IF wd = 6 THEN 1 ELSE 0

(***************************************************************************)
(* C1: when the session ends with close or exit, the state persisted on    *)
(* disk is equivalent (same names, phones, birthdays) to the directory the *)
(* session's commands operated on, so that the next session finds the      *)
(* contacts this one added.                                                *)
(* main() saves `book`, the loaded directory, and hands the handlers       *)
(* `address_book`, a fresh one: the property is violated.                  *)
(***************************************************************************)
C1_SavedIsSessionDirectory ==
    pc = "done" => Records(load_data(disk)) = Records(address_book)

(***************************************************************************)
(* C2: every phone stored in every record of the directory is a string of  *)
(* exactly 10 characters, all of them decimal digits.                      *)
(* str.isdigit() also accepts superscript digits: the property is violated.*)
(***************************************************************************)
C2_StoredPhonesAreTenDecimalDigits ==
    \A r \in Records(address_book) \cup Records(book) :
        \A i \in 1..Len(r.phones) : IsTenDecimalDigits(r.phones[i])

(***************************************************************************)
(* C3: `add name phone` with a valid phone prints "Contact added." and     *)
(* creates a contact holding exactly that phone when the name is absent;   *)
(* it prints "Contact update." when the name is present, the record then   *)
(* keeps its prior phones in order and its birthday, and the phone is      *)
(* appended last; after add John 1234567890 and add John 0987654321,       *)
(* `phone John` gives "John: 1234567890; 0987654321".                      *)
(***************************************************************************)
C3_AddStep ==
    (/\ pc = "loop"
     /\ CommandOf(user_input') = CmdAdd
     /\ Len(user_input') >= 3
     /\ IsTenDecimalDigits(user_input'[3]))
    => LET name == user_input'[2]
           number == user_input'[3]
           i == find(address_book, name)
       IN  /\ pc' = "loop"
           /\ IF i = 0
              THEN /\ printed' = <<MsgAdded>>
                   /\ address_book' =
                        Append(address_book,
                               [name |-> name, phones |-> <<number>>,
                                birthday |-> None])
              ELSE /\ printed' = <<MsgUpdate>>
                   /\ Len(address_book') = Len(address_book)
                   /\ \A j \in 1..Len(address_book) :
                         j # i => address_book'[j] = address_book[j]
                   /\ address_book'[i].name = name
                   /\ address_book'[i].birthday = address_book[i].birthday
                   /\ address_book'[i].phones =
                         address_book[i].phones \o <<number>>
           /\ (/\ name = John
               /\ i # 0
               /\ address_book[i].phones = <<P1>>
               /\ number = P2)
              => phone(<<John>>, address_book').val = OutJohnP1P2

C3_AddCreatesOrAppends ==
    [][C3_AddStep]_vars

C3_Witness ==
    /\ user_input = <<CmdAdd, John, P2>>
    /\ printed = <<MsgUpdate>>
    /\ \E r \in Records(address_book) : r.name = John /\ r.phones = <<P1, P2>>

(***************************************************************************)
(* C4: a failing edit_phone(old, new) leaves the phone sequence unchanged; *)
(* it fails with "Old number not found." when old is not in the sequence   *)
(* and with an invalid-phone error when old is present but new is not a    *)
(* valid 10-digit phone.                                                   *)
(* A new phone of ten superscript digits is not a valid phone and is       *)
(* accepted (see C2): the property is violated.                            *)
(***************************************************************************)
C4_ChangeStep ==
    (/\ pc = "loop"
     /\ CommandOf(user_input') = CmdChange
     /\ Len(user_input') = 4
     /\ find(address_book, user_input'[2]) # 0)
    => LET rec == address_book[find(address_book, user_input'[2])]
           old == user_input'[3]
           new == user_input'[4]
       IN  /\ printed' # <<MsgUpdated>> => address_book' = address_book
           /\ find_phone(rec, old) = 0
                => printed' = <<MsgErrorPrefix \o ErrOldNotFound>>
           /\ (find_phone(rec, old) # 0 /\ ~IsTenDecimalDigits(new))
                => /\ printed' \in {<<MsgErrorPrefix \o ErrPhoneLength>>,
                                    <<MsgErrorPrefix \o ErrPhoneDigits>>}
                   /\ address_book' = address_book

C4_FailingEditLeavesPhones ==
    [][C4_ChangeStep]_vars

(***************************************************************************)
(* C5, as stated: when John has phones 1234567890 then 0987654321,         *)
(* `change John 1234567890 1111111111` prints "Contact updated." and       *)
(* `phone John` then shows "John: 1111111111; 0987654321".                 *)
(***************************************************************************)
C5_Case ==
    /\ pc = "loop"
    /\ user_input' = <<CmdChange, John, P1, P3>>
    /\ find(address_book, John) # 0
    /\ address_book[find(address_book, John)].phones = <<P1, P2>>

C5_EditedPhoneInPlace ==
    [][C5_Case => /\ printed' = <<MsgUpdated>>
                  /\ phone(<<John>>, address_book').val = OutJohnP3P2]_vars

(***************************************************************************)
(* C5, amended: in the same case the command prints "Contact updated." and *)
(* `phone John` then shows "John: 0987654321; 1111111111": the edited      *)
(* phone is last.                                                          *)
(***************************************************************************)
C5_EditedPhoneLast ==
    [][C5_Case => /\ printed' = <<MsgUpdated>>
                  /\ phone(<<John>>, address_book').val = OutJohnP2P3]_vars

C5_Witness ==
    /\ user_input = <<CmdChange, John, P1, P3>>
    /\ printed = <<MsgUpdated>>
    /\ \E r \in Records(address_book) : r.name = John /\ r.phones = <<P2, P3>>

(***************************************************************************)
(* C6: get_upcoming_birthdays includes a record with a birthday if and     *)
(* only if the next occurrence of the birthday's month and day on or after *)
(* today is one of the days today .. today + 7; a record without a         *)
(* birthday is never included.                                             *)
(* A record with a 29.02 birthday makes the call raise in a year without   *)
(* that day, and no record is returned: the property is violated.          *)
(***************************************************************************)
C6_IncludedIffWithinWeek ==
    today # NoDate =>
        \A r \in Records(address_book) :
            LET included == \E i \in 1..Len(upcoming) : upcoming[i].name = r.name
            IN  IF r.birthday = None THEN ~included
                ELSE included <=>
                        \E k \in 0..7 : Occurrences(r.birthday, today, k) # {}

(***************************************************************************)
(* C7: every congratulation date get_upcoming_birthdays emits is a date    *)
(* from Monday to Friday: the birthday's occurrence within the week, moved *)
(* forward 2 days from a Saturday and 1 day from a Sunday and unchanged    *)
(* otherwise; today = Monday 01.01.2024 and a birthday on 06.01 give       *)
(* 08.01.2024.                                                             *)
(***************************************************************************)
C7_CongratulationOnWeekday ==
    today # NoDate =>
        /\ \A i \in 1..Len(upcoming) :
              \E r \in Records(address_book), k \in 0..7 :
                 /\ r.name = upcoming[i].name
                 /\ r.birthday # None
                 /\ \E c \in Occurrences(r.birthday, today, k) :
                       \E g \in DatesAfter(c, WeekendShift(weekday(c))) :
                          /\ upcoming[i].birthday = strftime(g)
                          /\ weekday(g) \in 0..4
        /\ (/\ today = <<2024, 1, 1>>
            /\ \E r \in Records(address_book) :
                  r.name = John /\ r.birthday = B0601)
           => \E i \in 1..Len(upcoming) :
                 upcoming[i] = [name |-> John, birthday |-> D08012024]

C7_Witness ==
    /\ today = <<2024, 1, 1>>
    /\ \E r \in Records(address_book) : r.name = John /\ r.birthday = B0601
    /\ \E i \in 1..Len(upcoming) :
          upcoming[i] = [name |-> John, birthday |-> D08012024]

(***************************************************************************)
(* C8: the session ends only through close or exit: every other line, in   *)
(* every directory state, yields a single printed message and the loop     *)
(* goes on to read the next command.                                       *)
(***************************************************************************)
C8_Step ==
    pc = "loop" =>
        IF CommandOf(user_input') \in {CmdClose, CmdExit}
        THEN pc' = "done"
        ELSE pc' = "loop" /\ Len(printed') = 1

C8_OnlyExitEndsSession ==
    [][C8_Step]_vars

C8_Witness ==
    /\ pc = "loop"
    /\ user_input = <<CmdBirthdays>>
    /\ today = <<2023, 2, 25>>
    /\ \E r \in Records(address_book) : r.birthday = B2902
    /\ printed = <<MsgErrorPrefix \o ErrDayRange>>

(***************************************************************************)
(* C9: a successful edit_phone(old, new) removes exactly the first         *)
(* occurrence of old and appends new: the length is unchanged, the other   *)
(* phones, later duplicates of old included, keep their relative order,    *)
(* and new is the last element.                                            *)
(***************************************************************************)
C9_Step ==
    (/\ pc = "loop"
     /\ CommandOf(user_input') = CmdChange
     /\ printed' = <<MsgUpdated>>)
    => LET idx == find(address_book, user_input'[2])
           old == user_input'[3]
           new == user_input'[4]
           before == address_book[idx].phones
           after == address_book'[idx].phones
       IN  /\ idx # 0
           /\ Len(after) = Len(before)
           /\ after[Len(after)] = new
           /\ \E i \in 1..Len(before) :
                 /\ before[i] = old
                 /\ \A j \in 1..(i - 1) : before[j] # old /\ after[j] = before[j]
                 /\ \A j \in i..(Len(before) - 1) : after[j] = before[j + 1]

C10_FailedAddLeavesDirectory ==
    [][(/\ pc = "loop"
        /\ CommandOf(user_input') = CmdAdd
        /\ printed' \notin {<<MsgAdded>>, <<MsgUpdate>>})
       => address_book' = address_book]_vars
====
